---- MODULE Spec2Model ----
(***************************************************************************)
(* State-machine model of cohomological_risk_scoring: the FinancialSheaf   *)
(* object (sheaf.py) and the PCRScorer that owns one (scorer.py).          *)
(*                                                                         *)
(* Values.  A graph is a record [nodes, attrs]: nodes is the sequence of   *)
(* node ids in networkx insertion order, attrs maps each undirected edge   *)
(* (a two-element set of nodes) to its attribute dict (a function from     *)
(* attribute names to integers).  An optional Python attribute (one that   *)
(* hasattr may find missing) is None or Some(value).  Real numbers that    *)
(* arise from means and from the normalising division are exact rationals  *)
(* <<numerator, denominator>> in lowest terms with denominator > 0.        *)
(***************************************************************************)
EXTENDS Integers, Sequences, FiniteSets, TLC

VARIABLES
    max_dim,                \* FinancialSheaf.max_dim
    filtration_param,       \* PCRScorer.filtration_param
    graph,                  \* FinancialSheaf.graph (None until a build)
    complex,                \* FinancialSheaf.complex: dimension -> list of simplices
    vertex_features,        \* FinancialSheaf.vertex_features (None until attached)
    edge_features,          \* FinancialSheaf.edge_features   (None until attached)
    restriction_func,       \* FinancialSheaf.restriction_func (None until attached)
    persistence_intervals,  \* FinancialSheaf.persistence_intervals (None until computed)
    scorer_graph,           \* PCRScorer.graph (None until fit)
    scores,                 \* PCRScorer.scores (None until compute_all_scores)
    ret,                    \* outcome of the most recent call
    snap                    \* history: one earlier query and the state it ran in, kept
                            \* for comparison with later queries (no program state)

vars == <<max_dim, filtration_param, graph, complex, vertex_features, edge_features,
          restriction_func, persistence_intervals, scorer_graph, scores, ret, snap>>

sheafVars == <<graph, complex, vertex_features, edge_features, restriction_func,
               persistence_intervals>>

----------------------------------------------------------------------------
(* Bounds of the explored inputs. *)

NodeIds == 0 .. 3        \* the node ids a graph may use
MaxWeight == 2          \* edge attribute values are 1 .. MaxWeight
MaxSimplexDim == 3      \* max_simplex_dim ranges over 0 .. MaxSimplexDim

(* Python's float('inf') as the death of an interval that never dies;      *)
(* every filtration value of the model is >= 0.                            *)
Inf == -1

None == <<>>
Some(x) == <<x>>

Weights == 1 .. MaxWeight
MaxDims == 0 .. MaxSimplexDim
Pairs == { {u, v} : u \in NodeIds, v \in NodeIds } \ { {u} : u \in NodeIds }

----------------------------------------------------------------------------
(* Generic helpers. *)

Min(a, b) == IF a <= b THEN a ELSE b
Max(a, b) == IF a >= b THEN a ELSE b
Abs(a) == IF a < 0 THEN -a ELSE a

SetMax(S) == CHOOSE x \in S : \A y \in S : y <= x
SetMin(S) == CHOOSE x \in S : \A y \in S : x <= y

RECURSIVE SumSeq(_)
SumSeq(s) == IF s = <<>> THEN 0 ELSE Head(s) + SumSeq(Tail(s))

RECURSIVE Flatten(_)
Flatten(ss) == IF ss = <<>> THEN <<>> ELSE Head(ss) \o Flatten(Tail(ss))

Range(s) == { s[i] : i \in 1 .. Len(s) }

(* Python's sorted() on a collection of distinct integers. *)
RECURSIVE sorted(_)
sorted(S) == IF S = {} THEN <<>> ELSE <<SetMin(S)>> \o sorted(S \ {SetMin(S)})

(* Lexicographic order on integer sequences of one length. *)
RECURSIVE LexLess(_, _)
LexLess(a, b) ==
    IF a = <<>> THEN FALSE
    ELSE IF Head(a) # Head(b) THEN Head(a) < Head(b)
    ELSE LexLess(Tail(a), Tail(b))

RECURSIVE LexSorted(_)
LexSorted(S) ==
    IF S = {} THEN <<>>
    ELSE LET m == CHOOSE x \in S : \A y \in S \ {x} : LexLess(x, y)
         IN  <<m>> \o LexSorted(S \ {m})

(* All sequences that list every element of S exactly once. *)
RECURSIVE Perms(_)
Perms(S) ==
    IF S = {} THEN {<<>>}
    ELSE UNION { { <<x>> \o p : p \in Perms(S \ {x}) } : x \in S }

(* dict.get(key, default) *)
Get(d, k, default) == IF k \in DOMAIN d THEN d[k] ELSE default

(* list.index(v): zero-based position of the first occurrence of v in s. *)
index(s, v) == (CHOOSE i \in 1 .. Len(s) : s[i] = v /\ \A j \in 1 .. (i - 1) : s[j] # v) - 1

----------------------------------------------------------------------------
(* networkx.Graph as the code reads it. *)

Pos(g, v) == CHOOSE i \in 1 .. Len(g.nodes) : g.nodes[i] = v

has_edge(g, u, v) == {u, v} \in DOMAIN g.attrs /\ u # v

(* graph.edges(): each edge once, reported from its endpoint that comes    *)
(* first in node order; adjacency is listed in node order too.             *)
EdgesFrom(g, i) ==
    LET n == Len(g.nodes)
        cand == [k \in 1 .. (n - i) |-> <<g.nodes[i], g.nodes[i + k]>>]
        Keep(e) == has_edge(g, e[1], e[2])
    IN  SelectSeq(cand, Keep)

edges(g) == Flatten([i \in 1 .. Len(g.nodes) |-> EdgesFrom(g, i)])

(* graph.neighbors(v), in node order. *)
neighbors(g, v) ==
    LET Adj(u) == has_edge(g, v, u)
    IN  SelectSeq(g.nodes, Adj)

(* graph[u][v].get(name, default) *)
EdgeAttr(g, u, v, name, default) == Get(g.attrs[{u, v}], name, default)

(* The node sets of the cliques of g with exactly k nodes                  *)
(* (nx.enumerate_all_cliques filtered by len(clique) == k).                *)
CliquesOfSize(g, k) ==
    { c \in SUBSET Range(g.nodes) :
        /\ Cardinality(c) = k
        /\ \A u \in c, v \in c : u # v => has_edge(g, u, v) }

----------------------------------------------------------------------------
(* FinancialSheaf.build_complex_from_graph (sheaf.py 54-82).               *)

(* Mutant: the threshold test made strict. *)
filtered_edges_Strict(g, threshold) ==
    LET Keep(e) == EdgeAttr(g, e[1], e[2], "weight", 1) > threshold
    IN  SelectSeq(edges(g), Keep)

filtered_edges(g, threshold) ==
    LET Keep(e) == EdgeAttr(g, e[1], e[2], "weight", 1) >= threshold
    IN  SelectSeq(edges(g), Keep)

(* Mutant: a clique accepted without testing its edges against the threshold. *)
edges_ok_NoThreshold(g, clique, threshold) ==
    \A u \in clique, v \in clique : u # v => has_edge(g, u, v)

edges_ok(g, clique, threshold) ==
    \A u \in clique, v \in clique :
        u # v => (has_edge(g, u, v) /\ EdgeAttr(g, u, v, "weight", 1) >= threshold)

HigherSimplices(g, dim, threshold) ==
    LexSorted({ sorted(c) : c \in { q \in CliquesOfSize(g, dim + 1) : edges_ok(g, q, threshold) } })

BuiltComplex(old, g, threshold, maxdim) ==
    LET written == {0, 1} \cup (2 .. maxdim)
    IN  [d \in (DOMAIN old) \cup written |->
            IF d = 0 THEN [i \in 1 .. Len(g.nodes) |-> <<g.nodes[i]>>]
            ELSE IF d = 1 THEN filtered_edges(g, threshold)
            ELSE IF d \in written THEN HigherSimplices(g, d, threshold)
            ELSE old[d]]

build_complex_from_graph(g, threshold) ==
    /\ graph' = Some(g)
    /\ complex' = BuiltComplex(complex, g, threshold, max_dim)
    /\ ret' = [op |-> "build_complex_from_graph", args |-> <<threshold>>,
               kind |-> "ok", val |-> complex', rebuilt |-> graph # None]
    /\ UNCHANGED <<max_dim, filtration_param, vertex_features, edge_features,
                   restriction_func, persistence_intervals, scorer_graph, scores>>

----------------------------------------------------------------------------
(* FinancialSheaf.compute_coboundary_matrix and _orientation_sign          *)
(* (sheaf.py 116-171).  A matrix is [rows, cols, at], at[<<j, i>>] the     *)
(* entry of row j and column i (1-based).                                  *)

_orientation_sign(sigma, tau) ==
    LET indices == [k \in 1 .. Len(tau) |-> index(sigma, tau[k])]
    IN  IF SumSeq(indices) % 2 = 0 THEN 1 ELSE -1

compute_coboundary_matrix(cx, dim) ==
    IF dim \notin DOMAIN cx \/ (dim + 1) \notin DOMAIN cx
    THEN [rows |-> 0, cols |-> 0, at |-> [x \in {} |-> 0]]
    ELSE LET p_simplices == cx[dim]
             p1_simplices == cx[dim + 1]
             n_p == Len(p_simplices)
             n_p1 == Len(p1_simplices)
         IN  [rows |-> n_p1, cols |-> n_p,
              at |-> [x \in (1 .. n_p1) \X (1 .. n_p) |->
                        IF Range(p_simplices[x[2]]) \subseteq Range(p1_simplices[x[1]])
                        THEN _orientation_sign(p1_simplices[x[1]], p_simplices[x[2]])
                        ELSE 0]]

(* Matrix product A * B (A.cols = B.rows). *)
MatMul(A, B) ==
    [rows |-> A.rows, cols |-> B.cols,
     at |-> [x \in (1 .. A.rows) \X (1 .. B.cols) |->
               SumSeq([k \in 1 .. A.cols |-> A.at[<<x[1], k>>] * B.at[<<k, x[2]>>]])]]

IsZeroMatrix(M) == \A x \in DOMAIN M.at : M.at[x] = 0

----------------------------------------------------------------------------
(* FinancialSheaf.compute_cohomology (sheaf.py 173-228).  linalg is        *)
(* scipy.sparse.linalg (sheaf.py 14), which provides svds and no qr.       *)

Row(M, j) == [i \in 1 .. M.cols |-> M.at[<<j, i>>]]

(* The rows without the one at position p, each cleared in column c by    *)
(* the pivot row.                                                          *)
Eliminated(rows, p, c) ==
    LET others == SubSeq(rows, 1, p - 1) \o SubSeq(rows, p + 1, Len(rows))
    IN  [k \in 1 .. Len(others) |->
            [i \in DOMAIN rows[p] |-> rows[p][c] * others[k][i] - others[k][c] * rows[p][i]]]

(* The rank of a matrix given by its rows: the number of its non-zero     *)
(* singular values.                                                        *)
RECURSIVE RankFrom(_, _, _)
RankFrom(rows, c, ncols) ==
    IF rows = <<>> \/ c > ncols THEN 0
    ELSE IF \A k \in 1 .. Len(rows) : rows[k][c] = 0 THEN RankFrom(rows, c + 1, ncols)
    ELSE LET p == CHOOSE k \in 1 .. Len(rows) : rows[k][c] # 0
         IN  1 + RankFrom(Eliminated(rows, p, c), c + 1, ncols)

Rank(M) == RankFrom([j \in 1 .. M.rows |-> Row(M, j)], 1, M.cols)

(* linalg.svds(delta, k) followed by the selection s < 1e-10               *)
(* (sheaf.py 206-207): svds rejects k outside 1 .. min(shape) - 1 and      *)
(* returns the k largest singular values, the negligible ones as 0; the    *)
(* outcome is the number of columns of kernel_basis.                       *)
svds_kernel(delta, k) ==
    IF k <= 0 THEN [kind |-> "ValueError", val |-> <<>>]
    ELSE [kind |-> "ok", val |-> Max(0, k - Rank(delta))]

(* The outcome of compute_cohomology(dim) on the complex cx. *)
Cohomology(cx, dim) ==
    IF dim # 0 THEN [kind |-> "AttributeError", val |-> <<>>]
    ELSE LET delta == compute_coboundary_matrix(cx, dim)
             kernel == IF delta.cols > 0
                       THEN svds_kernel(delta, Min(delta.rows, delta.cols) - 1)
                       ELSE [kind |-> "ok", val |-> delta.cols]
         IN  IF kernel.kind # "ok" THEN kernel
             ELSE [kind |-> "ok",
                   val |-> [dimension |-> dim, kernel_dim |-> kernel.val,
                            image_dim |-> 0, cohomology_dim |-> kernel.val]]

compute_cohomology(dim) ==
    /\ ret' = [op |-> "compute_cohomology", args |-> <<dim>>,
               kind |-> Cohomology(complex, dim).kind, val |-> Cohomology(complex, dim).val]
    /\ UNCHANGED <<max_dim, filtration_param, graph, complex, vertex_features, edge_features,
                   restriction_func, persistence_intervals, scorer_graph, scores>>

----------------------------------------------------------------------------
(* Exact rational arithmetic for the real-valued results.                  *)

RECURSIVE GCD(_, _)
GCD(a, b) == IF b = 0 THEN a ELSE GCD(b, a % b)

Rat(n, d) ==
    LET m == IF d < 0 THEN -n ELSE n
        e == Abs(d)
        k == GCD(Abs(m), e)
    IN  <<m \div k, e \div k>>

RInt(n) == <<n, 1>>
RAdd(a, b) == Rat(a[1] * b[2] + b[1] * a[2], a[2] * b[2])
RMul(a, b) == Rat(a[1] * b[1], a[2] * b[2])
RDiv(a, b) == Rat(a[1] * b[2], a[2] * b[1])
RLess(a, b) == a[1] * b[2] < b[1] * a[2]
RLeq(a, b) == a[1] * b[2] <= b[1] * a[2]

RECURSIVE RSum(_)
RSum(s) == IF s = <<>> THEN RInt(0) ELSE RAdd(Head(s), RSum(Tail(s)))

(* Python's max() over a non-empty collection of rationals. *)
RMax(S) == CHOOSE x \in S : \A y \in S : RLeq(y, x)

----------------------------------------------------------------------------
(* The persistence engine as compute_persistent_cohomology drives it       *)
(* (sheaf.py 251-292): a gudhi SimplexTree filled by insert(), then        *)
(* persistence(homology_coeff_field=2, min_persistence=0,                  *)
(* persistence_dim_max=True).  A tree maps each simplex (its vertex set)   *)
(* to its filtration value.                                                *)

(* SimplexTree.insert(simplex, filtration): the simplex and all its faces  *)
(* enter with the value; a simplex already present keeps the lower value.  *)
insert(tree, simplex, filtration) ==
    LET new == (SUBSET simplex) \ {{}}
    IN  [s \in (DOMAIN tree) \cup new |->
            IF s \notin new THEN tree[s]
            ELSE IF s \in DOMAIN tree THEN Min(tree[s], filtration)
            ELSE filtration]

RECURSIVE InsertVertices(_, _)
InsertVertices(tree, nodes) ==
    IF nodes = <<>> THEN tree
    ELSE InsertVertices(insert(tree, {Head(nodes)}, 0), Tail(nodes))

RECURSIVE InsertEdges(_, _, _, _)
InsertEdges(tree, g, es, param) ==
    IF es = <<>> THEN tree
    ELSE LET e == Head(es)
         IN  InsertEdges(insert(tree, {e[1], e[2]}, EdgeAttr(g, e[1], e[2], param, 1)),
                         g, Tail(es), param)

(* The filtration values of the graph edges among a simplex's vertices. *)
edge_filtrations(g, simplex, param) ==
    { EdgeAttr(g, e[1], e[2], param, 1) :
        e \in { x \in Range(simplex) \X Range(simplex) : x[1] < x[2] /\ has_edge(g, x[1], x[2]) } }

RECURSIVE InsertSimplices(_, _, _, _)
InsertSimplices(tree, g, simplices, param) ==
    IF simplices = <<>> THEN tree
    ELSE LET sx == Head(simplices)
             fs == edge_filtrations(g, sx, param)
             t2 == IF fs # {} THEN insert(tree, Range(sx), SetMax(fs)) ELSE tree
         IN  InsertSimplices(t2, g, Tail(simplices), param)

RECURSIVE InsertDims(_, _, _, _, _, _)
InsertDims(tree, g, cx, param, dim, maxdim) ==
    IF dim > maxdim THEN tree
    ELSE InsertDims(InsertSimplices(tree, g, Get(cx, dim, <<>>), param),
                    g, cx, param, dim + 1, maxdim)

SimplexTree(g, cx, param, maxdim) ==
    InsertDims(InsertEdges(InsertVertices([s \in {} |-> 0], g.nodes), g, edges(g), param),
               g, cx, param, 2, maxdim)

(* The filtration order: by value, then dimension, then vertices. *)
Before(tree, a, b) ==
    IF tree[a] # tree[b] THEN tree[a] < tree[b]
    ELSE IF Cardinality(a) # Cardinality(b) THEN Cardinality(a) < Cardinality(b)
    ELSE LexLess(sorted(a), sorted(b))

RECURSIVE FiltrationOrder(_, _)
FiltrationOrder(tree, S) ==
    IF S = {} THEN <<>>
    ELSE LET m == CHOOSE x \in S : \A y \in S \ {x} : Before(tree, x, y)
         IN  <<m>> \o FiltrationOrder(tree, S \ {m})

SymDiff(A, B) == (A \ B) \cup (B \ A)

(* Column reduction over the two-element field: add the column that owns   *)
(* the lowest entry until the lowest entry is unowned or the column is 0.  *)
RECURSIVE ReduceColumn(_, _)
ReduceColumn(col, owner) ==
    IF col = {} THEN col
    ELSE LET low == SetMax(col)
         IN  IF low \in DOMAIN owner THEN ReduceColumn(SymDiff(col, owner[low]), owner)
             ELSE col

(* The boundary of the simplex at position j: the positions of its faces. *)
Boundary(ord, j) ==
    IF Cardinality(ord[j]) = 1 THEN {}
    ELSE { i \in 1 .. (j - 1) :
             ord[i] \subseteq ord[j] /\ Cardinality(ord[i]) = Cardinality(ord[j]) - 1 }

(* A reduced non-zero column becomes the owner of its lowest entry, and    *)
(* its simplex the killer of the simplex at that entry.                    *)
Owned(owner, col) ==
    [x \in (DOMAIN owner) \cup {SetMax(col)} |-> IF x = SetMax(col) THEN col ELSE owner[x]]

Killed(killer, col, j) ==
    [x \in (DOMAIN killer) \cup {SetMax(col)} |-> IF x = SetMax(col) THEN j ELSE killer[x]]

(* One pass over the simplices in filtration order; the result maps the    *)
(* position of each paired positive simplex to the position of its killer. *)
RECURSIVE Pairing(_, _, _, _)
RECURSIVE PairColumn(_, _, _, _, _)
PairColumn(ord, j, owner, killer, col) ==
    IF col = {} THEN Pairing(ord, j + 1, owner, killer)
    ELSE Pairing(ord, j + 1, Owned(owner, col), Killed(killer, col, j))

Pairing(ord, j, owner, killer) ==
    IF j > Len(ord) THEN killer
    ELSE PairColumn(ord, j, owner, killer, ReduceColumn(Boundary(ord, j), owner))

(* The length death - birth of an interval, as the engine compares it;     *)
(* an interval that never dies is longer than every finite one.            *)
Longer(a, b) == IF a[2] = Inf THEN b[2] # Inf
                ELSE b[2] # Inf /\ (a[2] - a[1]) > (b[2] - b[1])

SortedByLength(s) == \A i \in 1 .. Len(s), j \in 1 .. Len(s) : i < j => ~Longer(s[j], s[i])

Killers(killer) == { killer[i] : i \in DOMAIN killer }

(* Mutant: intervals of length 0 reported as well. *)
Born_KeepingZeroLength(tree, ord, killer, killers, dim) ==
    { i \in 1 .. Len(ord) : Cardinality(ord[i]) = dim + 1 /\ i \notin killers }

(* The positions of the simplices of one dimension that start an interval  *)
(* with death - birth > 0 (min_persistence=0).                             *)
Born(tree, ord, killer, killers, dim) ==
    { i \in 1 .. Len(ord) :
        /\ Cardinality(ord[i]) = dim + 1
        /\ i \notin killers
        /\ (i \in DOMAIN killer => tree[ord[killer[i]]] - tree[ord[i]] > 0) }

(* Mutant: every interval reported as never dying. *)
Interval_NeverDies(tree, ord, killer, i) == <<tree[ord[i]], Inf>>

Interval(tree, ord, killer, i) ==
    <<tree[ord[i]], IF i \in DOMAIN killer THEN tree[ord[killer[i]]] ELSE Inf>>

(* The (birth, death) intervals of one dimension, in every order the       *)
(* engine's sort by decreasing length may leave them in.                   *)
IntervalsOfDim(tree, ord, killer, dim) ==
    { s \in { [k \in 1 .. Len(p) |-> Interval(tree, ord, killer, p[k])] :
               p \in Perms(Born(tree, ord, killer, Killers(killer), dim)) } :
        SortedByLength(s) }

(* Mutant: the intervals of dimension 0 and 1 exchanged. *)
PersistencePaired_Swapped(tree, ord, killer) ==
    { [H0 |-> h1, H1 |-> h0] : h0 \in IntervalsOfDim(tree, ord, killer, 0),
                               h1 \in IntervalsOfDim(tree, ord, killer, 1) }

PersistencePaired(tree, ord, killer) ==
    { [H0 |-> h0, H1 |-> h1] : h0 \in IntervalsOfDim(tree, ord, killer, 0),
                               h1 \in IntervalsOfDim(tree, ord, killer, 1) }

PersistenceOrdered(tree, ord) ==
    PersistencePaired(tree, ord, Pairing(ord, 1, [x \in {} |-> {}], [x \in {} |-> 0]))

PersistenceOf(tree) == PersistenceOrdered(tree, FiltrationOrder(tree, DOMAIN tree))

Persistence(g, cx, param, maxdim) == PersistenceOf(SimplexTree(g, cx, param, maxdim))

----------------------------------------------------------------------------
(* Outcomes of calls.  An operation yields Ok(value) or Raise(exception);  *)
(* ret records the operation, its arguments and the outcome.               *)

Ok(v) == [kind |-> "ok", val |-> v]
Raise(e) == [kind |-> e, val |-> <<>>]
Called(name, arguments, out) ==
    [op |-> name, args |-> arguments, kind |-> out.kind, val |-> out.val]

----------------------------------------------------------------------------
(* FinancialSheaf.define_sheaf_data (sheaf.py 84-114).  A feature is       *)
(* [kind, v]: kind "ndarray" with v the components, or kind "num" with v   *)
(* the one-element sequence holding a Python int/float.                    *)

define_sheaf_data(vf, ef, rf) ==
    /\ vertex_features' = Some(vf)
    /\ edge_features' = Some(ef)
    /\ restriction_func' = Some(IF rf = "None" THEN "default" ELSE rf)
    /\ ret' = Called("define_sheaf_data", <<>>, Ok(<<>>))
    /\ UNCHANGED <<max_dim, filtration_param, graph, complex, persistence_intervals,
                   scorer_graph, scores>>

----------------------------------------------------------------------------
(* FinancialSheaf.compute_persistent_cohomology (sheaf.py 230-294).        *)

compute_persistent_cohomology(param) ==
    IF graph = None
    THEN /\ ret' = Called("compute_persistent_cohomology", <<param>>, Raise("ValueError"))
         /\ UNCHANGED <<max_dim, filtration_param, graph, complex, vertex_features,
                        edge_features, restriction_func, persistence_intervals,
                        scorer_graph, scores>>
    ELSE \E pi \in Persistence(graph[1], complex, param, max_dim) :
            /\ persistence_intervals' = Some(pi)
            /\ ret' = Called("compute_persistent_cohomology", <<param>>, Ok(pi))
            /\ UNCHANGED <<max_dim, filtration_param, graph, complex, vertex_features,
                           edge_features, restriction_func, scorer_graph, scores>>

----------------------------------------------------------------------------
(* FinancialSheaf.compute_pcr_score and _estimate_cocycle_norm             *)
(* (sheaf.py 296-380).                                                     *)

(* np.linalg.norm of a vector; the input vectors have integer norms. *)
norm(v) ==
    LET sq == SumSeq([i \in 1 .. Len(v) |-> v[i] * v[i]])
    IN  CHOOSE r \in 0 .. sq : r * r = sq

(* sheaf.py 368-371; edge features of the inputs are numbers or, with an  *)
(* ndarray vertex feature, ndarrays.                                       *)
inconsistency(v_feat, e_feat) ==
    IF v_feat.kind = "ndarray" /\ e_feat.kind = "num"
    THEN norm(v_feat.v) - Abs(e_feat.v[1])
    ELSE IF v_feat.kind = "num" THEN Abs(v_feat.v[1] - e_feat.v[1])
    ELSE 1

(* sheaf.py 374-376 *)
weighted(g, vertex, neighbor, birth, death, inc) ==
    LET edge_filtration == EdgeAttr(g, vertex, neighbor, "weight", 1)
        upper == IF death # Inf THEN death ELSE birth * 2
    IN  IF birth <= edge_filtration /\ edge_filtration <= upper THEN inc * 2 ELSE inc

(* The neighbours whose edge contributes an inconsistency (sheaf.py 364). *)
contributing(g, vf, ef, vertex) ==
    LET Has(neighbor) == vertex \in DOMAIN vf /\ <<vertex, neighbor>> \in DOMAIN ef
    IN  SelectSeq(neighbors(g, vertex), Has)

(* np.mean of the inconsistencies over the contributing neighbours nb,    *)
(* 0.0 when there are none (sheaf.py 378-380).                             *)
mean_inconsistency(g, vf, ef, vertex, nb, birth, death) ==
    IF nb = <<>> THEN RInt(0)
    ELSE Rat(SumSeq([k \in 1 .. Len(nb) |->
                       weighted(g, vertex, nb[k], birth, death,
                                inconsistency(vf[vertex], ef[<<vertex, nb[k]>>]))]),
             Len(nb))

_estimate_cocycle_norm(g, ovf, oef, vertex, birth, death) ==
    IF neighbors(g, vertex) = <<>> THEN Ok(RInt(0))
    ELSE IF ovf = None \/ oef = None THEN Raise("AttributeError")
    ELSE Ok(mean_inconsistency(g, ovf[1], oef[1], vertex,
                               contributing(g, ovf[1], oef[1], vertex), birth, death))

(* Mutant: the death of an interval subtracted even when it is infinite. *)
persistence_length_Unguarded(iv) == iv[2] - iv[1]

persistence_length(iv) == IF iv[2] # Inf THEN iv[2] - iv[1] ELSE iv[1]

(* The loop of compute_pcr_score over the H1 intervals, given the cocycle  *)
(* norm estimated for each of them (sheaf.py 325-337).                     *)
vertex_pcr(h1_intervals, norms, persistence_weight, norm_weight) ==
    IF \E k \in 1 .. Len(h1_intervals) : norms[k].kind # "ok"
    THEN Raise("AttributeError")
    ELSE Ok(RSum([k \in 1 .. Len(h1_intervals) |->
                    RAdd(RMul(persistence_weight, RInt(persistence_length(h1_intervals[k]))),
                         RMul(norm_weight, norms[k].val))]))

cocycle_norms(g, ovf, oef, vertex, h1_intervals) ==
    [k \in 1 .. Len(h1_intervals) |->
        _estimate_cocycle_norm(g, ovf, oef, vertex, h1_intervals[k][1], h1_intervals[k][2])]

PcrScore(og, ovf, oef, opi, vertex, persistence_weight, norm_weight) ==
    IF opi = None THEN Raise("ValueError")
    ELSE vertex_pcr(opi[1].H1, cocycle_norms(og[1], ovf, oef, vertex, opi[1].H1),
                    persistence_weight, norm_weight)

compute_pcr_score(vertex, persistence_weight, norm_weight) ==
    /\ ret' = Called("compute_pcr_score", <<vertex, persistence_weight, norm_weight>>,
                     PcrScore(graph, vertex_features, edge_features, persistence_intervals,
                              vertex, persistence_weight, norm_weight))
    /\ UNCHANGED <<max_dim, filtration_param, graph, complex, vertex_features, edge_features,
                   restriction_func, persistence_intervals, scorer_graph, scores>>

----------------------------------------------------------------------------
(* FinancialSheaf.get_risk_classes and _find_vertices_in_cycle             *)
(* (sheaf.py 382-442).                                                     *)

TopK == 10
DefaultPersistenceWeight == RInt(1)
DefaultNormWeight == Rat(1, 2)
CycleScoreThreshold == Rat(1, 2)

(* The (vertex, score) pairs of the picked node positions, and the        *)
(* vertices of a list of such pairs.                                       *)
Tagged(picked, nodes, pcr) == [k \in 1 .. Len(picked) |-> <<nodes[picked[k]], pcr[picked[k]].val>>]
FirstOf(pairs) == [k \in 1 .. Len(pairs) |-> pairs[k][1]]

(* s[:k] *)
Top(s, k) == SubSeq(s, 1, Min(Len(s), k))

(* list.sort(key=score, reverse=True): stable, highest score first. *)
RECURSIVE SortByScoreDesc(_)
SortByScoreDesc(s) ==
    IF s = <<>> THEN <<>>
    ELSE LET i == CHOOSE k \in 1 .. Len(s) :
                    /\ \A j \in 1 .. Len(s) : RLeq(s[j][2], s[k][2])
                    /\ \A j \in 1 .. (k - 1) : RLess(s[j][2], s[k][2])
         IN  <<s[i]>> \o SortByScoreDesc(SubSeq(s, 1, i - 1) \o SubSeq(s, i + 1, Len(s)))

(* The nodes whose score exceeds 0.5, highest first, at most ten           *)
(* (sheaf.py 434-442), given each node's compute_pcr_score outcome.        *)
top_vertices(nodes, pcr) ==
    LET High(k) == RLess(CycleScoreThreshold, pcr[k].val)
    IN  IF \E k \in 1 .. Len(nodes) : pcr[k].kind # "ok"
        THEN Raise("AttributeError")
        ELSE Ok(Top(FirstOf(SortByScoreDesc(
                        Tagged(SelectSeq([k \in 1 .. Len(nodes) |-> k], High), nodes, pcr))),
                    TopK))

_find_vertices_in_cycle(og, ovf, oef, opi) ==
    top_vertices(og[1].nodes,
                 [k \in 1 .. Len(og[1].nodes) |->
                    PcrScore(og, ovf, oef, opi, og[1].nodes[k],
                             DefaultPersistenceWeight, DefaultNormWeight)])

(* Mutant: the CRCs numbered by their position in the result. *)
crcs_Renumbered(h1, kept, involved) ==
    IF kept = <<>> THEN Ok(<<>>)
    ELSE IF involved.kind # "ok" THEN involved
    ELSE Ok([k \in 1 .. Len(kept) |->
               [id |-> k - 1,
                birth |-> h1[kept[k]][1],
                death |-> h1[kept[k]][2],
                persistence |-> persistence_length(h1[kept[k]]),
                vertices |-> involved.val,
                risk_level |-> Min(persistence_length(h1[kept[k]]) * 10, 1)]])

(* The CRC dictionaries of the H1 intervals at the positions kept          *)
(* (sheaf.py 398-414); involved is the outcome of _find_vertices_in_cycle. *)
crcs(h1, kept, involved) ==
    IF kept = <<>> THEN Ok(<<>>)
    ELSE IF involved.kind # "ok" THEN involved
    ELSE Ok([k \in 1 .. Len(kept) |->
               [id |-> kept[k] - 1,
                birth |-> h1[kept[k]][1],
                death |-> h1[kept[k]][2],
                persistence |-> persistence_length(h1[kept[k]]),
                vertices |-> involved.val,
                risk_level |-> Min(persistence_length(h1[kept[k]]) * 10, 1)]])

(* Mutant: only the intervals strictly above the threshold kept. *)
kept_intervals_Strict(h1, threshold) ==
    LET Kept(i) == RLess(threshold, RInt(persistence_length(h1[i])))
    IN  SelectSeq([i \in 1 .. Len(h1) |-> i], Kept)

(* The one-based positions of the H1 intervals with persistence >= threshold. *)
kept_intervals(h1, threshold) ==
    LET Kept(i) == RLeq(threshold, RInt(persistence_length(h1[i])))
    IN  SelectSeq([i \in 1 .. Len(h1) |-> i], Kept)

RiskClasses(og, ovf, oef, opi, threshold) ==
    IF opi = None THEN Raise("AttributeError")
    ELSE crcs(opi[1].H1, kept_intervals(opi[1].H1, threshold),
              _find_vertices_in_cycle(og, ovf, oef, opi))

sheaf_get_risk_classes(threshold) ==
    /\ ret' = Called("sheaf.get_risk_classes", <<threshold>>,
                     RiskClasses(graph, vertex_features, edge_features,
                                 persistence_intervals, threshold))
    /\ UNCHANGED <<max_dim, filtration_param, graph, complex, vertex_features, edge_features,
                   restriction_func, persistence_intervals, scorer_graph, scores>>

----------------------------------------------------------------------------
(* PCRScorer (scorer.py 37-126).                                           *)

fit(g, vf, ef, rf) ==
    \E cx \in {BuiltComplex(complex, g, 0, max_dim)} :
        \E pi \in Persistence(g, cx, filtration_param, max_dim) :
            /\ graph' = Some(g)
            /\ complex' = cx
            /\ vertex_features' = Some(vf)
            /\ edge_features' = Some(ef)
            /\ restriction_func' = Some(IF rf = "None" THEN "default" ELSE rf)
            /\ persistence_intervals' = Some(pi)
            /\ scorer_graph' = Some(g)
            /\ ret' = Called("fit", <<>>, Ok(<<>>))
            /\ UNCHANGED <<max_dim, filtration_param, scores>>

(* The exception of the first call that raised, in node order. *)
first_raised(raw) ==
    raw[CHOOSE k \in 1 .. Len(raw) :
          raw[k].kind # "ok" /\ \A j \in 1 .. (k - 1) : raw[j].kind = "ok"]

(* scorer.py 105-107: division by the maximum when it is positive. *)
normalised(nodes, raw, max_score) ==
    [v \in Range(nodes) |->
        IF RLess(RInt(0), max_score)
        THEN RDiv(raw[index(nodes, v) + 1].val, max_score)
        ELSE raw[index(nodes, v) + 1].val]

max_of(raw) == IF raw = <<>> THEN RInt(1) ELSE RMax({ raw[k].val : k \in 1 .. Len(raw) })

scores_from(nodes, raw) ==
    IF \E k \in 1 .. Len(raw) : raw[k].kind # "ok"
    THEN Raise(first_raised(raw).kind)
    ELSE Ok(normalised(nodes, raw, max_of(raw)))

AllScores(osg, og, ovf, oef, opi, persistence_weight, norm_weight) ==
    IF osg = None THEN Raise("AttributeError")
    ELSE scores_from(osg[1].nodes,
                     [k \in 1 .. Len(osg[1].nodes) |->
                        PcrScore(og, ovf, oef, opi, osg[1].nodes[k],
                                 persistence_weight, norm_weight)])

compute_all_scores(persistence_weight, norm_weight) ==
    LET out == AllScores(scorer_graph, graph, vertex_features, edge_features,
                         persistence_intervals, persistence_weight, norm_weight)
    IN  /\ scores' = IF out.kind = "ok" THEN Some(out.val) ELSE scores
        /\ ret' = Called("compute_all_scores", <<persistence_weight, norm_weight>>, out)
        /\ UNCHANGED <<max_dim, filtration_param, graph, complex, vertex_features,
                       edge_features, restriction_func, persistence_intervals,
                       scorer_graph>>

(* Mutant: the query consumes the H1 intervals it has reported. *)
get_risk_classes_Consuming(threshold) ==
    /\ ret' = Called("get_risk_classes", <<threshold>>,
                     RiskClasses(graph, vertex_features, edge_features,
                                 persistence_intervals, threshold))
    /\ persistence_intervals' =
          IF persistence_intervals = None THEN None
          ELSE Some([persistence_intervals[1] EXCEPT !.H1 = <<>>])
    /\ UNCHANGED <<max_dim, filtration_param, graph, complex, vertex_features, edge_features,
                   restriction_func, scorer_graph, scores>>

get_risk_classes(threshold) ==
    /\ ret' = Called("get_risk_classes", <<threshold>>,
                     RiskClasses(graph, vertex_features, edge_features,
                                 persistence_intervals, threshold))
    /\ UNCHANGED <<max_dim, filtration_param, graph, complex, vertex_features, edge_features,
                   restriction_func, persistence_intervals, scorer_graph, scores>>

----------------------------------------------------------------------------
(* Input graphs.                                                           *)

WithEdge(g, e, d) ==
    [g EXCEPT !.attrs = [x \in (DOMAIN g.attrs) \cup {e} |-> IF x = e THEN d ELSE g.attrs[x]]]

WithoutEdge(g, e) ==
    [g EXCEPT !.attrs = [x \in (DOMAIN g.attrs) \ {e} |-> g.attrs[x]]]

(* Every graph over the given node order whose edges carry dicts of D. *)
GraphsOn(order, D) ==
    { [nodes |-> order, attrs |-> a] : a \in UNION { [E -> D] : E \in SUBSET Pairs } }

(* The graphs one edit away from g: one edge removed, added or re-attributed. *)
Edits(g, D) ==
    { WithoutEdge(g, e) : e \in DOMAIN g.attrs }
      \cup { WithEdge(g, e, d) : e \in Pairs, d \in D }

(* Node insertion orders: ascending, and ascending with node 0 added last. *)
Rotation(k) == [i \in 1 .. Cardinality(NodeIds) |-> (i - 1 + k) % Cardinality(NodeIds)]
NodeOrders == { Rotation(0), Rotation(1) }

WeightDicts == { [weight |-> w] : w \in Weights }
ComplexGraphs == UNION { GraphsOn(o, WeightDicts) : o \in NodeOrders }
Thresholds == {0, MaxWeight}

----------------------------------------------------------------------------
(* Input features and query arguments.                                     *)

VecZero == [kind |-> "ndarray", v |-> <<0, 0>>]
VecFive == [kind |-> "ndarray", v |-> <<3, 4>>]
NumOne == [kind |-> "num", v |-> <<1>>]
Num(x) == [kind |-> "num", v |-> <<x>>]

UniformVertexFeatures(g, f) == [v \in Range(g.nodes) |-> f]

(* Edge features keyed by graph.edges(), valued by the weight              *)
(* (utils.py 61-64).                                                       *)
ReportedEdgeFeatures(g) ==
    [e \in Range(edges(g)) |-> Num(EdgeAttr(g, e[1], e[2], "weight", 1))]

(* The same features stored under both orientations of every edge. *)
BothWayEdgeFeatures(g) ==
    [e \in Range(edges(g)) \cup { <<x[2], x[1]>> : x \in Range(edges(g)) } |->
        Num(EdgeAttr(g, e[1], e[2], "weight", 1))]

ScoreWeights == { <<RInt(0), DefaultNormWeight>>,
                  <<DefaultPersistenceWeight, RInt(0)>>,
                  <<DefaultPersistenceWeight, DefaultNormWeight>> }

RiskThresholds == { Rat(1, 10), RInt(1), RInt(MaxWeight) }

----------------------------------------------------------------------------
(* Initial state: the objects as their constructors leave them             *)
(* (sheaf.py 31-34, scorer.py 33-35).                                      *)

InitWith(dims, params) ==
    /\ max_dim \in dims
    /\ filtration_param \in params
    /\ graph = None
    /\ complex = [d \in {} |-> <<>>]
    /\ vertex_features = None
    /\ edge_features = None
    /\ restriction_func = None
    /\ persistence_intervals = None
    /\ scorer_graph = None
    /\ scores = None
    /\ ret = [op |-> "__init__", args |-> <<>>, kind |-> "ok", val |-> <<>>]
    /\ snap = None

----------------------------------------------------------------------------
(* Specification of the complex builder alone: a first build from any      *)
(* input graph, then rebuilds of the same FinancialSheaf from the graph    *)
(* with one edge edited, or from the same graph with another threshold.    *)

InitComplex == InitWith(MaxDims, {"weight"})

FirstBuild ==
    /\ graph = None
    /\ \E g \in ComplexGraphs, t \in Thresholds : build_complex_from_graph(g, t)
    /\ UNCHANGED snap

RebuildEdited ==
    /\ graph # None /\ ret.op = "build_complex_from_graph"
    /\ \E g \in Edits(graph[1], WeightDicts) : build_complex_from_graph(g, ret.args[1])
    /\ UNCHANGED snap

RebuildThreshold ==
    /\ graph # None
    /\ \E t \in Thresholds : build_complex_from_graph(graph[1], t)
    /\ UNCHANGED snap

NextComplex == FirstBuild \/ RebuildEdited \/ RebuildThreshold

SpecComplex == InitComplex /\ [][NextComplex]_vars

----------------------------------------------------------------------------
(* Specification of scoring over many datasets: one PCRScorer is fitted    *)
(* once to any dataset of the family and then queried.                     *)

(* The datasets: graphs over the path 0-1-...-n with any further edges,    *)
(* all of weight 1 or one of the further edges heavier; features complete  *)
(* in one of three styles, or with the entry of the first node left out.   *)
PathEdges == { {i, i + 1} : i \in 0 .. (Cardinality(NodeIds) - 2) }

UnitGraph(E) == [nodes |-> Rotation(0), attrs |-> [e \in E |-> [weight |-> 1]]]

ScoreGraphs ==
    UNION { { UnitGraph(PathEdges \cup X) }
              \cup { WithEdge(UnitGraph(PathEdges \cup X), h, [weight |-> w]) :
                        h \in X, w \in Weights \ {1} } :
            X \in SUBSET (Pairs \ PathEdges) }

Without(f, k) == [x \in (DOMAIN f) \ {k} |-> f[x]]

Features(g) ==
    { <<UniformVertexFeatures(g, VecZero), ReportedEdgeFeatures(g)>>,
      <<UniformVertexFeatures(g, NumOne), ReportedEdgeFeatures(g)>>,
      <<UniformVertexFeatures(g, VecFive), BothWayEdgeFeatures(g)>>,
      <<Without(UniformVertexFeatures(g, VecFive), g.nodes[1]), BothWayEdgeFeatures(g)>> }

ScoreDims == {1, 2}

InitScore == InitWith(ScoreDims, {"weight"})

FitFresh ==
    /\ scorer_graph = None
    /\ \E g \in ScoreGraphs : \E f \in Features(g) : fit(g, f[1], f[2], "None")
    /\ UNCHANGED snap

ComputeAllScores ==
    /\ \E w \in ScoreWeights : compute_all_scores(w[1], w[2])
    /\ UNCHANGED snap

GetRiskClasses ==
    /\ \E t \in RiskThresholds : get_risk_classes(t)
    /\ UNCHANGED snap

NextScore == FitFresh \/ ComputeAllScores \/ GetRiskClasses

SpecScore == InitScore /\ [][NextScore]_vars

----------------------------------------------------------------------------
(* Specification of one FinancialSheaf driven directly: the complex built  *)
(* and rebuilt, sheaf data attached, persistence computed under a named    *)
(* edge attribute, and scores and risk classes requested, in any order.    *)

Ring == UnitGraph(PathEdges \cup {{0, Cardinality(NodeIds) - 1}})
SheafGraphs == { Ring, WithEdge(Ring, {0, 2}, [weight |-> MaxWeight]) }
FiltrationParams == {"weight", "time"}

InitSheaf == InitWith(ScoreDims, {"weight"})

Build ==
    /\ \E g \in SheafGraphs : build_complex_from_graph(g, 0)
    /\ UNCHANGED snap

(* One value, a vector or a number, as the feature of every vertex and of   *)
(* every edge under both orientations.                                     *)
CommonFeatures(g) ==
    { <<UniformVertexFeatures(g, f), [e \in DOMAIN BothWayEdgeFeatures(g) |-> f]>> :
        f \in {VecFive, NumOne} }

SheafFeatures == Features(Ring) \cup CommonFeatures(Ring)

(* The restriction_func argument: absent, or a caller's function that      *)
(* returns 0.0 for every vertex and edge feature.                          *)
RestrictionFuncs == {"None", "zero"}

Define ==
    /\ \E f \in SheafFeatures, rf \in RestrictionFuncs : define_sheaf_data(f[1], f[2], rf)
    /\ UNCHANGED snap

Persist ==
    /\ \E p \in FiltrationParams : compute_persistent_cohomology(p)
    /\ UNCHANGED snap

Score ==
    /\ \E v \in NodeIds, w \in ScoreWeights : compute_pcr_score(v, w[1], w[2])
    /\ UNCHANGED snap

Risk ==
    /\ \E t \in RiskThresholds : sheaf_get_risk_classes(t)
    /\ UNCHANGED snap

NextSheaf == Build \/ Define \/ Persist \/ Score \/ Risk

SpecSheaf == InitSheaf /\ [][NextSheaf]_vars

----------------------------------------------------------------------------
(* Specification of a session on one PCRScorer: fits, refits and queries   *)
(* in any order.  snap remembers one query made since the last fit: the    *)
(* call, its outcome, and the intervals and scores the objects then held.  *)

SessionGraphs == SheafGraphs
SessionDims == {1}

SessionFeatures(g) ==
    { <<UniformVertexFeatures(g, VecZero), ReportedEdgeFeatures(g)>>,
      <<UniformVertexFeatures(g, VecFive), BothWayEdgeFeatures(g)>> }

InitSession == InitWith(SessionDims, {"weight"})

Remember ==
    snap' \in { snap,
                Some([op |-> ret'.op, args |-> ret'.args, kind |-> ret'.kind, val |-> ret'.val,
                      intervals |-> persistence_intervals', scores |-> scores']) }

SessionFit ==
    /\ \E g \in SessionGraphs : \E f \in SessionFeatures(g) : fit(g, f[1], f[2], "None")
    /\ snap' = None

SessionScores ==
    /\ \E w \in ScoreWeights : compute_all_scores(w[1], w[2])
    /\ Remember

SessionRisk ==
    /\ \E t \in RiskThresholds : get_risk_classes(t)
    /\ Remember

NextSession == SessionFit \/ SessionScores \/ SessionRisk

SpecSession == InitSession /\ [][NextSession]_vars

----------------------------------------------------------------------------
(* Specification of the persistence computation alone: a FinancialSheaf    *)
(* is built once from any graph on at most Cardinality(NodeIds) nodes and  *)
(* its persistence is computed under the edge weight.                      *)

Prefix(k) == SubSeq(Rotation(0), 1, k)

PersistGraphs ==
    UNION { { [nodes |-> Prefix(k), attrs |-> a] :
                a \in UNION { [E -> WeightDicts] :
                                E \in SUBSET { e \in Pairs : e \subseteq 0 .. (k - 1) } } } :
            k \in 0 .. Cardinality(NodeIds) }

InitPersist == InitWith(ScoreDims, {"weight"})

BuildAny ==
    /\ graph = None
    /\ \E g \in PersistGraphs, t \in Thresholds : build_complex_from_graph(g, t)
    /\ UNCHANGED snap

PersistWeight ==
    /\ graph # None /\ persistence_intervals = None
    /\ compute_persistent_cohomology("weight")
    /\ UNCHANGED snap

NextPersist == BuildAny \/ PersistWeight

SpecPersist == InitPersist /\ [][NextPersist]_vars

----------------------------------------------------------------------------
(* Specification of scoring under a chosen filtration parameter: a         *)
(* PCRScorer constructed with filtration_param 'weight' or 'time' is       *)
(* fitted once on a ring whose edges carry both attributes, and the raw    *)
(* scores of its sheaf are queried.                                        *)

TimedDicts == { [weight |-> w, time |-> t] : w \in Weights, t \in 1 .. (MaxWeight + 1) }

(* The ring with one dict on the closing edge and another on the others. *)
TimedGraphs ==
    { [Ring EXCEPT !.attrs = [e \in DOMAIN Ring.attrs |->
                                IF e = {0, Cardinality(NodeIds) - 1} THEN b ELSE a]] :
        a \in TimedDicts, b \in TimedDicts }

InitFiltration == InitWith(SessionDims, FiltrationParams)

FitTimed ==
    /\ scorer_graph = None
    /\ \E g \in TimedGraphs : \E f \in SessionFeatures(g) : fit(g, f[1], f[2], "None")
    /\ UNCHANGED snap

ScoreVertex ==
    /\ scorer_graph # None
    /\ \E v \in NodeIds, w \in ScoreWeights : compute_pcr_score(v, w[1], w[2])
    /\ UNCHANGED snap

NextFiltration == FitTimed \/ ScoreVertex

SpecFiltration == InitFiltration /\ [][NextFiltration]_vars

----------------------------------------------------------------------------
(* Specification of the persistence computation on larger graphs: besides  *)
(* the graphs of SpecPersist, the square 0-1-2-3 with a fifth node joined  *)
(* to 0 and 1, with or without the two diagonals.                          *)

Roof == Cardinality(NodeIds)

(* The square with one weight on its sides and any dicts on the further    *)
(* edges {0, Roof}, {1, Roof}, {0, 2}, {1, 3} that are present.            *)
HouseGraphs ==
    { [nodes |-> Rotation(0) \o <<Roof>>,
       attrs |-> [e \in (DOMAIN Ring.attrs) \cup DOMAIN x |->
                    IF e \in DOMAIN x THEN x[e] ELSE [weight |-> w]]] :
        w \in Weights,
        x \in UNION { [E -> WeightDicts] : E \in SUBSET {{0, Roof}, {1, Roof}, {0, 2}, {1, 3}} } }

InitSweep == InitWith(ScoreDims, {"weight"})

BuildHouse ==
    /\ graph = None
    /\ \E g \in PersistGraphs \cup HouseGraphs, t \in Thresholds : build_complex_from_graph(g, t)
    /\ UNCHANGED snap

PersistHouse ==
    /\ graph # None /\ persistence_intervals = None
    /\ compute_persistent_cohomology("weight")
    /\ UNCHANGED snap

NextSweep == BuildHouse \/ PersistHouse

SpecSweep == InitSweep /\ [][NextSweep]_vars

----------------------------------------------------------------------------
(* Specification of the cohomology solver: a FinancialSheaf of any         *)
(* max_dim is built once from any graph on at most Cardinality(NodeIds)    *)
(* nodes and compute_cohomology is called for any dimension.               *)

InitCohomology == InitWith(MaxDims, {"weight"})

BuildOnce ==
    /\ graph = None
    /\ \E g \in PersistGraphs : build_complex_from_graph(g, 0)
    /\ UNCHANGED snap

ComputeCohomology ==
    /\ graph # None
    /\ \E p \in MaxDims : compute_cohomology(p)
    /\ UNCHANGED snap

NextCohomology == BuildOnce \/ ComputeCohomology

SpecCohomology == InitCohomology /\ [][NextCohomology]_vars

----------------------------------------------------------------------------
(* Claims about the complex builder.                                       *)

Built == ret.op = "build_complex_from_graph"

(* The faces of a simplex: its vertex sets with one vertex left out. *)
Faces(sigma) == { Range(sigma) \ {v} : v \in Range(sigma) }

FaceClosed(cx) ==
    \A k \in DOMAIN cx : k > 0 =>
        \A j \in 1 .. Len(cx[k]) : \A f \in Faces(cx[k][j]) :
            /\ (k - 1) \in DOMAIN cx
            /\ \E i \in 1 .. Len(cx[k - 1]) : Range(cx[k - 1][i]) = f

(* C3: the complex held by the sheaf is closed under faces: every face of  *)
(* every simplex of dimension k > 0 is a simplex of dimension k-1, after   *)
(* a first build and after every rebuild of the same object.               *)
C3_FaceClosed == FaceClosed(complex)

C3_Witness ==
    /\ Built /\ ret.rebuilt
    /\ 3 \in DOMAIN complex /\ complex[3] # <<>>
    /\ complex[2] # <<>>

(* C4: the product of consecutive coboundary matrices is the zero matrix   *)
(* for every p with dimensions p, p+1 and p+2 present.                     *)
C4_CoboundarySquaredZero ==
    \A p \in DOMAIN complex :
        ((p + 1) \in DOMAIN complex /\ (p + 2) \in DOMAIN complex) =>
            IsZeroMatrix(MatMul(compute_coboundary_matrix(complex, p + 1),
                                compute_coboundary_matrix(complex, p)))

PassingEdges(g, threshold) == { e \in DOMAIN g.attrs : g.attrs[e].weight >= threshold }

(* C5: after build_complex_from_graph(graph, threshold), dimension 1 lists *)
(* exactly the graph edges of weight >= threshold, each once, and every    *)
(* pair of vertices of every simplex of dimension >= 1 is such an edge.    *)
C5_ThresholdRespected ==
    Built =>
        LET g == graph[1]
            ok == PassingEdges(g, ret.args[1])
        IN  /\ { Range(complex[1][i]) : i \in 1 .. Len(complex[1]) } = ok
            /\ Len(complex[1]) = Cardinality(ok)
            /\ \A k \in DOMAIN complex : k >= 1 =>
                  \A j \in 1 .. Len(complex[k]) :
                      \A u \in Range(complex[k][j]), v \in Range(complex[k][j]) :
                          u # v => {u, v} \in ok

C5_Witness ==
    /\ Built
    /\ PassingEdges(graph[1], ret.args[1]) # DOMAIN graph[1].attrs
    /\ 2 \in DOMAIN complex
    /\ Cardinality(CliquesOfSize(graph[1], 3)) > Len(complex[2])
    /\ complex[2] # <<>>

----------------------------------------------------------------------------
(* Claims about a fitted PCRScorer.                                        *)

Fitted == scorer_graph # None

Returned(name) == ret.op = name /\ ret.kind = "ok"

(* C1: after fit, compute_all_scores returns one entry per graph vertex,   *)
(* every value lies in [0, 1], a vertex holding the maximum raw score maps *)
(* to 1, and when the maximum raw score is 0 every score is 0.             *)
C1_ScoresNormalised ==
    (Fitted /\ ret.op = "compute_all_scores") =>
        /\ ret.kind = "ok"
        /\ DOMAIN ret.val = Range(scorer_graph[1].nodes)
        /\ \A v \in DOMAIN ret.val :
              /\ RLeq(RInt(0), ret.val[v]) /\ RLeq(ret.val[v], RInt(1))
              /\ LET raw(u) == PcrScore(graph, vertex_features, edge_features,
                                        persistence_intervals, u,
                                        ret.args[1], ret.args[2]).val
                      top == RMax({ raw(u) : u \in DOMAIN ret.val })
                  IN  /\ raw(v) = top => (ret.val[v] = RInt(1) \/ top = RInt(0))
                      /\ top = RInt(0) => ret.val[v] = RInt(0)

(* The features lack the entry of a vertex of the complex, or the entry of *)
(* an edge of the complex under either orientation.                        *)
FeaturesIncomplete ==
    \/ \E i \in 1 .. Len(complex[0]) : complex[0][i][1] \notin DOMAIN vertex_features[1]
    \/ \E i \in 1 .. Len(complex[1]) :
          /\ <<complex[1][i][1], complex[1][i][2]>> \notin DOMAIN edge_features[1]
          /\ <<complex[1][i][2], complex[1][i][1]>> \notin DOMAIN edge_features[1]

(* C7: when the features lack an entry for a vertex or an edge of the      *)
(* complex, computing the scores reports an error to the caller.           *)
C7_MissingFeatureReported ==
    (Fitted /\ ret.op = "compute_all_scores" /\ FeaturesIncomplete) => ret.kind # "ok"

Ids(classes) == { classes[k].id : k \in 1 .. Len(classes) }

SameInterval(a, b) == a.birth = b.birth /\ a.death = b.death

(* C9: for a fitted model and thresholds t1 <= t2, the ids returned by     *)
(* get_risk_classes(t1) include those returned by get_risk_classes(t2),    *)
(* and an id denotes the same H1 interval in both results.                 *)
C9_RiskClassesMonotone ==
    (Fitted /\ Returned("get_risk_classes")) =>
        \A t \in RiskThresholds :
            LET other == RiskClasses(graph, vertex_features, edge_features,
                                     persistence_intervals, t)
            IN  /\ other.kind = "ok"
                /\ RLeq(t, ret.args[1]) => Ids(ret.val) \subseteq Ids(other.val)
                /\ RLeq(ret.args[1], t) => Ids(other.val) \subseteq Ids(ret.val)
                /\ \A i \in 1 .. Len(ret.val), j \in 1 .. Len(other.val) :
                      ret.val[i].id = other.val[j].id => SameInterval(ret.val[i], other.val[j])

(* A threshold that drops the first H1 interval and keeps a later one. *)
C9_Witness ==
    /\ Fitted /\ Returned("get_risk_classes")
    /\ ret.val # <<>>
    /\ Len(ret.val) < Len(persistence_intervals[1].H1)
    /\ 0 \notin Ids(ret.val)

----------------------------------------------------------------------------
(* Claims about a FinancialSheaf driven directly.                          *)

(* The exception by which the code reports a missing earlier step          *)
(* (sheaf.py 248-249, 317-318).                                            *)
NotFittedError == "ValueError"

ComplexAndData == graph # None /\ vertex_features # None /\ edge_features # None

Ready == ComplexAndData /\ persistence_intervals # None

(* C2: for every vertex of a fitted model, with non-negative weights and   *)
(* non-negative edge filtration values, compute_pcr_score returns a value  *)
(* >= 0, whatever the feature values are.                                  *)
C2_ScoreNonNegative ==
    (Ready /\ Returned("compute_pcr_score")) => RLeq(RInt(0), ret.val)

(* C6: a request for persistence before the complex is built and the data  *)
(* attached, or for a score or the risk classes before that or before      *)
(* persistence is computed, is reported as the one not-fitted error.       *)
C6_NotFittedReported ==
    /\ (ret.op = "compute_persistent_cohomology" /\ ~ComplexAndData) => ret.kind = NotFittedError
    /\ (ret.op \in {"compute_pcr_score", "sheaf.get_risk_classes"} /\ ~Ready)
          => ret.kind = NotFittedError

(* C8: when the filtration parameter is not an attribute of the graph's    *)
(* edges, computing persistence reports an error.                          *)
C8_UnknownParameterReported ==
    (/\ ret.op = "compute_persistent_cohomology"
     /\ graph # None
     /\ \E e \in DOMAIN graph[1].attrs : ret.args[1] \notin DOMAIN graph[1].attrs[e])
        => ret.kind # "ok"

----------------------------------------------------------------------------
(* Claims about a session on one PCRScorer.                                *)

SameCall == ret.op = snap[1].op /\ ret.args = snap[1].args

(* C10: between two fits, a query called again with the same arguments     *)
(* returns the same result whatever queries came in between, and no query  *)
(* changes the persistence intervals.                                      *)
C10_QueriesIndependent ==
    snap # None =>
        /\ persistence_intervals = snap[1].intervals
        /\ SameCall => (ret.kind = snap[1].kind /\ ret.val = snap[1].val)

(* The risk classes asked again after the scores have been recomputed. *)
C10_Witness ==
    /\ snap # None /\ Fitted
    /\ SameCall /\ Returned("get_risk_classes") /\ ret.val # <<>>
    /\ snap[1].scores # None /\ scores # snap[1].scores

----------------------------------------------------------------------------
(* Claims about the persistence result.                                    *)

(* The nodes joined to the nodes of S by a path of graph edges. *)
RECURSIVE Reach(_, _)
Reach(g, S) ==
    LET next == S \cup { v \in Range(g.nodes) : \E u \in S : has_edge(g, u, v) }
    IN  IF next = S THEN S ELSE Reach(g, next)

Components(g) == { Reach(g, {v}) : v \in Range(g.nodes) }

(* A graph without cycles is a forest: edges = nodes - components. *)
Acyclic(g) == Cardinality(DOMAIN g.attrs) = Len(g.nodes) - Cardinality(Components(g))

Unending(intervals) == { k \in 1 .. Len(intervals) : intervals[k][2] = Inf }

(* C11: for a graph without cycles the persistence result has no H1        *)
(* interval and as many H0 intervals of infinite death as the graph has    *)
(* connected components.                                                   *)
C11_ForestPersistence ==
    (Returned("compute_persistent_cohomology") /\ Acyclic(graph[1])) =>
        /\ ret.val.H1 = <<>>
        /\ Cardinality(Unending(ret.val.H0)) = Cardinality(Components(graph[1]))

(* A forest with a tree of several edges and a second component. *)
C11_Witness ==
    /\ Returned("compute_persistent_cohomology") /\ Acyclic(graph[1])
    /\ Cardinality(DOMAIN graph[1].attrs) = 2
    /\ Cardinality(Components(graph[1])) = 2
    /\ Len(ret.val.H0) = 4

(* The 3-cycle on the vertices 0, 1, 2 with all weights 1. *)
ThreeCycle == [nodes |-> Prefix(3), attrs |-> [e \in {{0, 1}, {1, 2}, {0, 2}} |-> [weight |-> 1]]]

(* The sheaf holds the 3-cycle built with the given max_dim and threshold  *)
(* 0, and its persistence has just been computed.                          *)
ThreeCycleDone(dim) ==
    /\ Returned("compute_persistent_cohomology")
    /\ graph = Some(ThreeCycle) /\ max_dim = dim
    /\ complex = BuiltComplex([d \in {} |-> <<>>], ThreeCycle, 0, dim)

----------------------------------------------------------------------------
(* Claims about the cocycle-norm estimate and the raw score.               *)

(* Every vertex feature and every edge feature is one and the same value. *)
CommonFeature ==
    \E f \in {VecFive, NumOne} :
        /\ \A v \in DOMAIN vertex_features[1] : vertex_features[1][v] = f
        /\ \A e \in DOMAIN edge_features[1] : edge_features[1][e] = f

(* The sum of the persistence lengths of the H1 intervals held. *)
TotalPersistence ==
    LET h1 == persistence_intervals[1].H1
    IN  SumSeq([k \in 1 .. Len(h1) |-> persistence_length(h1[k])])

(* C13: when every vertex and edge feature is the same value, scalar or    *)
(* vector, the cocycle-norm estimate is 0, so each raw score equals        *)
(* persistence_weight times the sum of the H1 persistence lengths.         *)
C13_CommonFeatureScore ==
    (Ready /\ Returned("compute_pcr_score") /\ CommonFeature) =>
        ret.val = RMul(ret.args[2], RInt(TotalPersistence))

(* C14: the discrepancy used in the cocycle-norm estimate is the value of  *)
(* the attached restriction function; with a caller's function that is 0   *)
(* everywhere the estimate is 0 and the score is the persistence term.     *)
C14_RestrictionUsed ==
    (Ready /\ Returned("compute_pcr_score") /\ restriction_func = Some("zero")) =>
        ret.val = RMul(ret.args[2], RInt(TotalPersistence))

----------------------------------------------------------------------------
(* Claims about the risk classes of a fitted PCRScorer.                    *)

(* death - birth, or birth when the interval never dies. *)
Length(birth, death) == IF death = Inf THEN birth ELSE death - birth

(* The zero-based positions of the H1 intervals of length >= threshold. *)
Qualifying(h1, threshold) ==
    { i - 1 : i \in { j \in 1 .. Len(h1) : RLeq(threshold, RInt(Length(h1[j][1], h1[j][2]))) } }

(* C15: get_risk_classes(threshold) returns one CRC for exactly the H1     *)
(* intervals of persistence length >= threshold, each with persistence     *)
(* equal to that length and risk_level = min(10 * persistence, 1), which   *)
(* lies in [0, 1].                                                         *)
C15_RiskClassesExact ==
    (Fitted /\ Returned("get_risk_classes")) =>
        LET h1 == persistence_intervals[1].H1
        IN  /\ Ids(ret.val) = Qualifying(h1, ret.args[1])
            /\ Len(ret.val) = Cardinality(Qualifying(h1, ret.args[1]))
            /\ \A k \in 1 .. Len(ret.val) :
                  LET c == ret.val[k]
                  IN  /\ <<c.birth, c.death>> = h1[c.id + 1]
                      /\ c.persistence = Length(c.birth, c.death)
                      /\ c.risk_level = Min(10 * c.persistence, 1)
                      /\ 0 <= c.risk_level /\ c.risk_level <= 1

(* An interval of length exactly the threshold is kept, a shorter dropped. *)
C15_Witness ==
    /\ Fitted /\ Returned("get_risk_classes")
    /\ \E k \in 1 .. Len(ret.val) : RInt(ret.val[k].persistence) = ret.args[1]
    /\ Len(ret.val) < Len(persistence_intervals[1].H1)

(* C16: the vertex list of every CRC holds the ten vertices of highest raw *)
(* PCR score over the whole graph, all of them when the graph has fewer    *)
(* than ten, highest first, however small the scores are.                  *)
C16_TopTenVertices ==
    (Fitted /\ Returned("get_risk_classes")) =>
        \A k \in 1 .. Len(ret.val) :
            LET vs == ret.val[k].vertices
                raw(v) == PcrScore(graph, vertex_features, edge_features, persistence_intervals,
                                   v, DefaultPersistenceWeight, DefaultNormWeight).val
            IN  /\ Len(vs) = Min(TopK, Len(graph[1].nodes))
                /\ \A i, j \in 1 .. Len(vs) : i < j => vs[i] # vs[j] /\ RLeq(raw(vs[j]), raw(vs[i]))
                /\ \A v \in Range(graph[1].nodes) \ Range(vs) :
                      \A i \in 1 .. Len(vs) : RLeq(raw(v), raw(vs[i]))

----------------------------------------------------------------------------
(* Claims about the cocycle-norm estimate, observed through                *)
(* compute_pcr_score with persistence_weight = 0.                          *)

(* The neighbours of v whose edge has a feature under either key. *)
Featured(g, ef, v) ==
    LET Has(u) == <<v, u>> \in DOMAIN ef \/ <<u, v>> \in DOMAIN ef
    IN  SelectSeq(neighbors(g, v), Has)

(* The feature of edge {v, u}, under whichever key holds it. *)
FeatureOf(ef, v, u) == IF <<v, u>> \in DOMAIN ef THEN ef[<<v, u>>] ELSE ef[<<u, v>>]

(* The mean over the featured incident edges of the discrepancy, doubled   *)
(* inside the interval.                                                    *)
MeanOverIncident(g, vf, ef, v, birth, death) ==
    LET nb == Featured(g, ef, v)
    IN  IF nb = <<>> THEN RInt(0)
        ELSE Rat(SumSeq([k \in 1 .. Len(nb) |->
                           weighted(g, v, nb[k], birth, death,
                                    inconsistency(vf[v], FeatureOf(ef, v, nb[k])))]),
                 Len(nb))

NormOnly == Ready /\ Returned("compute_pcr_score") /\ ret.args[2] = RInt(0)

(* C17: the estimate of a vertex is the mean over all its incident edges   *)
(* that have a feature, stored under key (v, u) or under key (u, v), so    *)
(* both endpoints of a featured edge see it.                               *)
C17_EitherOrientation ==
    (NormOnly /\ ret.args[1] \in DOMAIN vertex_features[1]) =>
        LET h1 == persistence_intervals[1].H1
        IN  ret.val = RMul(ret.args[3],
                           RSum([k \in 1 .. Len(h1) |->
                                   MeanOverIncident(graph[1], vertex_features[1], edge_features[1],
                                                    ret.args[1], h1[k][1], h1[k][2])]))

(* The discrepancy inc of edge {v, u}, doubled when the edge's value of    *)
(* the filtration parameter lies in [birth, death], or in                  *)
(* [birth, 2 * birth] for an interval that never dies.                     *)
DoubledInInterval(g, param, v, u, birth, death, inc) ==
    LET value == EdgeAttr(g, v, u, param, 1)
        upper == IF death # Inf THEN death ELSE birth * 2
    IN  IF birth <= value /\ value <= upper THEN inc * 2 ELSE inc

MeanByFiltration(g, param, vf, ef, v, birth, death) ==
    LET nb == contributing(g, vf, ef, v)
    IN  IF nb = <<>> THEN RInt(0)
        ELSE Rat(SumSeq([k \in 1 .. Len(nb) |->
                           DoubledInInterval(g, param, v, nb[k], birth, death,
                                             inconsistency(vf[v], ef[<<v, nb[k]>>]))]),
                 Len(nb))

(* C18: in the estimate for an H1 interval an incident edge's discrepancy  *)
(* is doubled exactly when the edge's value of the attribute chosen as     *)
(* filtration parameter lies in the interval, for every parameter.         *)
C18_DoublingByFiltration ==
    (Fitted /\ NormOnly) =>
        LET h1 == persistence_intervals[1].H1
        IN  ret.val = RMul(ret.args[3],
                           RSum([k \in 1 .. Len(h1) |->
                                   MeanByFiltration(graph[1], filtration_param,
                                                    vertex_features[1], edge_features[1],
                                                    ret.args[1], h1[k][1], h1[k][2])]))

(* A rational with a non-zero denominator: a finite number. *)
IsFinite(r) == r[2] > 0

(* The estimates of a vertex for each of the H1 intervals held. *)
Estimates(v) ==
    LET h1 == persistence_intervals[1].H1
    IN  [k \in 1 .. Len(h1) |->
            _estimate_cocycle_norm(graph[1], vertex_features, edge_features,
                                   v, h1[k][1], h1[k][2]).val]

(* C19: the raw score of a vertex is the sum over the H1 intervals of      *)
(* persistence_weight * length + norm_weight * estimate, with length =     *)
(* death - birth, or birth for an infinite death; the score is finite,     *)
(* also when intervals never die.                                          *)
C19_RawScoreFormula ==
    (Ready /\ Returned("compute_pcr_score")) =>
        LET h1 == persistence_intervals[1].H1
        IN  /\ ret.val = RSum([k \in 1 .. Len(h1) |->
                                 RAdd(RMul(ret.args[2], RInt(Length(h1[k][1], h1[k][2]))),
                                      RMul(ret.args[3], Estimates(ret.args[1])[k]))])
            /\ IsFinite(ret.val)

(* A score with both terms at work over an interval that never dies. *)
C19_Witness ==
    /\ Ready /\ Returned("compute_pcr_score")
    /\ \E k \in 1 .. Len(persistence_intervals[1].H1) : persistence_intervals[1].H1[k][2] = Inf
    /\ ret.args[2] # RInt(0) /\ ret.args[3] # RInt(0)
    /\ ret.val # RMul(ret.args[2], RInt(TotalPersistence))

----------------------------------------------------------------------------
(* Claims about the orientation sign.                                      *)

(* The zero-based position in sigma of the vertex that tau lacks. *)
DeletedPosition(sigma, tau) == index(sigma, CHOOSE v \in Range(sigma) \ Range(tau) : TRUE)

MinusOneTo(k) == IF k % 2 = 0 THEN 1 ELSE -1

(* C20: for every (p+1)-simplex sigma of the complex and every p-face tau  *)
(* of sigma, p = 0, 1, 2, the coboundary entry given by _orientation_sign  *)
(* equals (-1)^k, k the zero-based position in sigma of the vertex deleted *)
(* to obtain tau.                                                          *)
C20_SignOfDeletedPosition ==
    Built =>
        \A p \in 0 .. 2 :
            (p \in DOMAIN complex /\ (p + 1) \in DOMAIN complex) =>
                LET delta == compute_coboundary_matrix(complex, p)
                IN  \A j \in 1 .. Len(complex[p + 1]), i \in 1 .. Len(complex[p]) :
                        Range(complex[p][i]) \subseteq Range(complex[p + 1][j]) =>
                            delta.at[<<j, i>>] = MinusOneTo(DeletedPosition(complex[p + 1][j],
                                                                            complex[p][i]))

----------------------------------------------------------------------------
(* Claims about the shape of the complex.                                  *)

(* C21: the complex returned by build_complex_from_graph has the dimension *)
(* keys 0 .. max_dim and no others, so none for 1-simplices when max_dim   *)
(* is 0; when max_dim < 0 or the graph has no vertices every list it holds *)
(* is empty, and no error is raised.                                       *)
C21_DimensionKeys ==
    Built =>
        /\ ret.kind = "ok"
        /\ DOMAIN ret.val = 0 .. max_dim
        /\ (max_dim < 0 \/ graph[1].nodes = <<>>) => \A d \in DOMAIN ret.val : ret.val[d] = <<>>

(* The number of simplices of dimension d held, 0 when the key is absent. *)
Count(d) == IF d \in DOMAIN complex THEN Len(complex[d]) ELSE 0

(* C22: compute_cohomology(p) on a complex with p-simplices and no         *)
(* (p+1)-simplices returns, without raising, kernel_dim equal to the       *)
(* number of p-simplices; with no p-simplices it returns kernel_dim 0      *)
(* without raising.                                                        *)
C22_DegenerateKernel ==
    (ret.op = "compute_cohomology" /\ (Count(ret.args[1]) = 0 \/ Count(ret.args[1] + 1) = 0)) =>
        /\ ret.kind = "ok"
        /\ ret.val.kernel_dim = Count(ret.args[1])

----------------------------------------------------------------------------
(* Claims about the persistence engine against the incremental sweep.      *)

(* The multiset of the entries of a sequence. *)
BagOf(s) == [x \in Range(s) |-> Cardinality({ i \in DOMAIN s : s[i] = x })]

(* The intervals of positive or infinite length. *)
Lasting(s) ==
    LET Lasts(iv) == iv[2] = Inf \/ iv[2] > iv[1]
    IN  SelectSeq(s, Lasts)

Undying(s) ==
    LET Never(iv) == iv[2] = Inf
    IN  SelectSeq(s, Never)

(* The sweep over the simplices ord[j ..] of a filtered complex: comp maps *)
(* each vertex seen to its component, alive lists the births of the H1     *)
(* classes alive, oldest first, h0 and h1 the intervals closed so far.     *)
(* A vertex starts a component; an edge joining two components closes an   *)
(* H0 interval, any other edge gives birth to an H1 class; a 2-simplex     *)
(* whose boundary depends on no earlier ones (its position is in killers)  *)
(* closes the oldest class alive.                                          *)
RECURSIVE SweepFrom(_, _, _, _, _, _, _, _)
SweepFrom(tree, ord, killers, j, comp, alive, h0, h1) ==
    IF j > Len(ord)
    THEN [H0 |-> h0 \o [k \in 1 .. Cardinality({ comp[v] : v \in DOMAIN comp }) |-> <<0, Inf>>],
          H1 |-> h1 \o [k \in 1 .. Len(alive) |-> <<alive[k], Inf>>]]
    ELSE LET sx == ord[j]
             u == SetMin(sx)
             v == SetMax(sx)
         IN  IF Cardinality(sx) = 1
             THEN SweepFrom(tree, ord, killers, j + 1,
                            [x \in (DOMAIN comp) \cup sx |-> IF x \in sx THEN x ELSE comp[x]],
                            alive, h0, h1)
             ELSE IF Cardinality(sx) = 2 /\ comp[u] # comp[v]
             THEN SweepFrom(tree, ord, killers, j + 1,
                            [x \in DOMAIN comp |-> IF comp[x] = comp[v] THEN comp[u] ELSE comp[x]],
                            alive, Append(h0, <<0, tree[sx]>>), h1)
             ELSE IF Cardinality(sx) = 2
             THEN SweepFrom(tree, ord, killers, j + 1, comp, Append(alive, tree[sx]), h0, h1)
             ELSE IF Cardinality(sx) = 3 /\ j \in killers /\ alive # <<>>
             THEN SweepFrom(tree, ord, killers, j + 1, comp, Tail(alive), h0,
                            Append(h1, <<Head(alive), tree[sx]>>))
             ELSE SweepFrom(tree, ord, killers, j + 1, comp, alive, h0, h1)

SweepOrdered(tree, ord) ==
    SweepFrom(tree, ord, Killers(Pairing(ord, 1, [x \in {} |-> {}], [x \in {} |-> 0])),
              1, [x \in {} |-> x], <<>>, <<>>, <<>>)

(* The sweep over the filtered complex the engine was given. *)
Sweep ==
    LET tree == SimplexTree(graph[1], complex, ret.args[1], max_dim)
    IN  SweepOrdered(tree, FiltrationOrder(tree, DOMAIN tree))

SameH0(sw) == BagOf(ret.val.H0) = BagOf(Lasting(sw.H0))
SameH1(sw) == BagOf(ret.val.H1) = BagOf(Lasting(sw.H1))

(* C23 as claimed: the sweep, closing the oldest H1 class alive at each    *)
(* dependent 2-simplex, yields for every filtered complex the same         *)
(* multisets of H0 and H1 intervals as the engine.                         *)
C23_SweepMatchesEngine ==
    Returned("compute_persistent_cohomology") => SameH0(Sweep) /\ SameH1(Sweep)

(* C23 as amended: the sweep and the engine agree on the H0 intervals, on  *)
(* the H1 intervals when the complex has no 2-simplices, and on the number *)
(* of H1 intervals that never die.                                         *)
C23_SweepMatchesApartFromDeaths ==
    Returned("compute_persistent_cohomology") =>
        /\ SameH0(Sweep)
        /\ (max_dim < 2 => SameH1(Sweep))
        /\ Len(Undying(ret.val.H1)) = Len(Undying(Sweep.H1))

(* A complex with 2-simplices on which the sweep and the engine close      *)
(* different H1 classes.                                                   *)
C23_Witness ==
    /\ Returned("compute_persistent_cohomology")
    /\ max_dim >= 2 /\ ~SameH1(Sweep)
    /\ ret.val.H0 # <<>> /\ Undying(ret.val.H1) # <<>>

(* The edges the engine was given, and the 1-simplices of the complex. *)
InsertedEdges ==
    { sx \in DOMAIN SimplexTree(graph[1], complex, ret.args[1], max_dim) : Cardinality(sx) = 2 }

ComplexEdges == { Range(complex[1][i]) : i \in 1 .. Len(complex[1]) }

(* The filtration values of the 1-simplices of the complex. *)
ComplexEdgeValues == { EdgeAttr(graph[1], SetMin(e), SetMax(e), ret.args[1], 1) : e \in ComplexEdges }

(* C24: the persistence computation is over the built complex only: the    *)
(* edges inserted into the filtration are the 1-simplices of the complex,  *)
(* so no edge below the build threshold merges components or gives birth   *)
(* to an H1 interval.                                                      *)
C24_PersistenceOverComplex ==
    Returned("compute_persistent_cohomology") =>
        /\ InsertedEdges = ComplexEdges
        /\ \A k \in 1 .. Len(ret.val.H0) :
              ret.val.H0[k][2] # Inf => ret.val.H0[k][2] \in ComplexEdgeValues
        /\ \A k \in 1 .. Len(ret.val.H1) : ret.val.H1[k][1] \in ComplexEdgeValues

----------------------------------------------------------------------------
(* Claims about the scores a PCRScorer holds.                              *)

(* The scores compute_all_scores yields on the data now fitted. *)
CurrentScores(w) ==
    AllScores(scorer_graph, graph, vertex_features, edge_features, persistence_intervals,
              w[1], w[2])

(* C25: after any sequence of fit and compute_all_scores calls the scores  *)
(* the scorer holds were computed from the most recently fitted graph and  *)
(* features; fit never leaves the scores of an earlier fit in place.       *)
C25_ScoresOfLatestFit ==
    (Fitted /\ scores # None) =>
        \E w \in ScoreWeights : CurrentScores(w).kind = "ok" /\ CurrentScores(w).val = scores[1]

====
